---- MODULE Spec2Model ----
(***************************************************************************)
(* The RunWatch GitHub reporter action (latest revision of the action's    *)
(* index.ts): status inference, self-job resolution, timing and branch     *)
(* fields of the record, and the run() flow from inputs to outputs.        *)
(*                                                                         *)
(* The specifications share the variables below:                           *)
(*   Spec           one invocation of run(): inputs, getCurrentJobId,      *)
(*                  fetchPipelineRun, sendMetrics, outputs or failure;     *)
(*   SpecClassify   applies mapJobStatus / mapPipelineStatus to one raw    *)
(*                  (status, conclusion) pair;                             *)
(*   SpecSelf       runs getCurrentJobId against a provider job listing;   *)
(*   SpecStatus     runs fetchPipelineRun over job and run states;         *)
(*   SpecJobTiming  runs fetchPipelineRun over job timestamps;             *)
(*   SpecRunFields  runs fetchPipelineRun over run timestamps, modes,      *)
(*                  branches and clock readings;                           *)
(*   SpecBranch     applies extractBranchName to one (ref, head ref) pair; *)
(*   SpecPaging     steps through the paging loop of                       *)
(*                  listAllJobsForWorkflowRun, one request at a time;      *)
(*   SpecDebug      one invocation of run() beside a twin invocation that  *)
(*                  differs in the debug flag alone.                       *)
(***************************************************************************)
EXTENDS Integers, Sequences, FiniteSets, TLC

----------------------------------------------------------------------------
(* Bounds and value domains *)

\* largest number of jobs the provider lists for a run
MaxJobs == 3

\* JavaScript null, and the value of a variable nothing was assigned to yet
Null == "null"
Undefined == "undefined"

\* provider lifecycle states: the three live states the code names,
\* "completed", and one state the code does not name ("requested")
JobStates == {"queued", "in_progress", "waiting", "completed", "requested"}
PipelineStates == JobStates \cup {Null}

\* provider outcome codes: null, the empty string, the five the code accepts
\* and one it does not ("neutral")
Conclusions ==
  {Null, "", "success", "failure", "cancelled", "skipped", "timed_out", "neutral"}

JobNames == {"build", "test"}
RunnerNames == {"runner-a", "runner-b"}

----------------------------------------------------------------------------
(* Pure functions of the source *)

VALID_PIPELINE_CONCLUSIONS ==
  {"success", "failure", "cancelled", "skipped", "timed_out"}

\* mutant: the outcome list of the earlier revision, without timed_out
VALID_JOB_CONCLUSIONS_NoTimedOut ==
  {"success", "failure", "cancelled", "skipped"}

VALID_JOB_CONCLUSIONS ==
  {"success", "failure", "cancelled", "skipped", "timed_out"}

\* truthiness of a `string | null` value: null and "" are falsy
Truthy(s) == s # Null /\ s # Undefined /\ s # ""

isValidPipelineConclusion(conclusion) ==
  conclusion # Null /\ conclusion \in VALID_PIPELINE_CONCLUSIONS

isValidJobConclusion(conclusion) ==
  conclusion # Null /\ conclusion \in VALID_JOB_CONCLUSIONS

\* mutant: the earlier revision's fallback, "unknown" for every live state
mapPipelineStatus_Unknown(status, conclusion) ==
  IF status = "completed" /\ isValidPipelineConclusion(conclusion) THEN conclusion
  ELSE "unknown"

mapPipelineStatus(status, conclusion) ==
  IF status = "completed" /\ isValidPipelineConclusion(conclusion) THEN conclusion
  ELSE IF status = "queued" THEN "queued"
  ELSE IF status = "in_progress" THEN "running"
  ELSE IF status = "waiting" THEN "pending"
  ELSE "running"

\* mutant: a completed job's outcome is passed through unchecked
mapJobStatus_PassThrough(status, conclusion) ==
  IF status = "completed" /\ conclusion # Null THEN conclusion
  ELSE IF status = "queued" THEN "queued"
  ELSE IF status = "in_progress" THEN "running"
  ELSE IF status = "waiting" THEN "pending"
  ELSE "running"

mapJobStatus(status, conclusion) ==
  IF status = "completed" /\ isValidJobConclusion(conclusion) THEN conclusion
  ELSE IF status = "queued" THEN "queued"
  ELSE IF status = "in_progress" THEN "running"
  ELSE IF status = "waiting" THEN "pending"
  ELSE "running"

\* jobs.some((job) => job.status === s)
SomeJob(jobs, s) == \E i \in DOMAIN jobs : jobs[i].status = s

\* the inference over a non-empty job list once the run's own outcome and
\* the failure check are behind: shared by the mutants below
InferTail(jobs, pipelineStatus, activeFirst, queuedFirst) ==
  LET active ==
        SomeJob(jobs, "running") \/ SomeJob(jobs, "pending") \/ SomeJob(jobs, "queued")
      activeStatus ==
        IF queuedFirst
        THEN (IF SomeJob(jobs, "queued") THEN "queued"
              ELSE IF SomeJob(jobs, "pending") THEN "pending" ELSE "running")
        ELSE (IF SomeJob(jobs, "pending") THEN "pending"
              ELSE IF SomeJob(jobs, "queued") THEN "queued" ELSE "running")
  IN  IF activeFirst /\ active THEN activeStatus
      ELSE IF SomeJob(jobs, "cancelled") THEN "cancelled"
      ELSE IF active THEN activeStatus
      ELSE IF \A i \in DOMAIN jobs :
                jobs[i].status = "success" \/ jobs[i].status = "skipped"
      THEN "success"
      ELSE IF pipelineStatus = "queued" THEN "queued"
      ELSE IF pipelineStatus = "waiting" THEN "pending"
      ELSE "running"

EmptyJobsStatus(pipelineStatus) ==
  IF pipelineStatus = "queued" THEN "queued"
  ELSE IF pipelineStatus = "in_progress" THEN "running"
  ELSE IF pipelineStatus = "waiting" THEN "pending"
  ELSE "running"

\* mutant: still-active jobs are looked at before cancelled ones
inferPipelineStatusFromJobs_ActiveFirst(jobs, pipelineStatus, pipelineConclusion) ==
  IF pipelineStatus = "completed" /\ Truthy(pipelineConclusion)
  THEN mapPipelineStatus(pipelineStatus, pipelineConclusion)
  ELSE IF Len(jobs) = 0 THEN EmptyJobsStatus(pipelineStatus)
  ELSE IF SomeJob(jobs, "failure") THEN "failure"
  ELSE InferTail(jobs, pipelineStatus, TRUE, FALSE)

\* mutant: a failed job is looked at before the run's own outcome
inferPipelineStatusFromJobs_JobsFirst(jobs, pipelineStatus, pipelineConclusion) ==
  IF SomeJob(jobs, "failure") THEN "failure"
  ELSE IF pipelineStatus = "completed" /\ Truthy(pipelineConclusion)
  THEN mapPipelineStatus(pipelineStatus, pipelineConclusion)
  ELSE IF Len(jobs) = 0 THEN EmptyJobsStatus(pipelineStatus)
  ELSE InferTail(jobs, pipelineStatus, FALSE, FALSE)

\* mutant: the empty job list is not handled apart
inferPipelineStatusFromJobs_NoEmptyCheck(jobs, pipelineStatus, pipelineConclusion) ==
  IF pipelineStatus = "completed" /\ Truthy(pipelineConclusion)
  THEN mapPipelineStatus(pipelineStatus, pipelineConclusion)
  ELSE IF SomeJob(jobs, "failure") THEN "failure"
  ELSE InferTail(jobs, pipelineStatus, FALSE, FALSE)

\* mutant: queued jobs are looked at before pending ones
inferPipelineStatusFromJobs_QueuedFirst(jobs, pipelineStatus, pipelineConclusion) ==
  IF pipelineStatus = "completed" /\ Truthy(pipelineConclusion)
  THEN mapPipelineStatus(pipelineStatus, pipelineConclusion)
  ELSE IF Len(jobs) = 0 THEN EmptyJobsStatus(pipelineStatus)
  ELSE IF SomeJob(jobs, "failure") THEN "failure"
  ELSE InferTail(jobs, pipelineStatus, FALSE, TRUE)

\* mutant: a timed-out job counts as a failure
inferPipelineStatusFromJobs_TimedOutFails(jobs, pipelineStatus, pipelineConclusion) ==
  IF pipelineStatus = "completed" /\ Truthy(pipelineConclusion)
  THEN mapPipelineStatus(pipelineStatus, pipelineConclusion)
  ELSE IF Len(jobs) = 0 THEN EmptyJobsStatus(pipelineStatus)
  ELSE IF SomeJob(jobs, "failure") \/ SomeJob(jobs, "timed_out") THEN "failure"
  ELSE InferTail(jobs, pipelineStatus, FALSE, FALSE)

inferPipelineStatusFromJobs(jobs, pipelineStatus, pipelineConclusion) ==
  IF pipelineStatus = "completed" /\ Truthy(pipelineConclusion)
  THEN mapPipelineStatus(pipelineStatus, pipelineConclusion)
  ELSE IF Len(jobs) = 0
  THEN (IF pipelineStatus = "queued" THEN "queued"
        ELSE IF pipelineStatus = "in_progress" THEN "running"
        ELSE IF pipelineStatus = "waiting" THEN "pending"
        ELSE "running")
  ELSE IF SomeJob(jobs, "failure") THEN "failure"
  ELSE IF SomeJob(jobs, "cancelled") THEN "cancelled"
  ELSE IF SomeJob(jobs, "running") \/ SomeJob(jobs, "pending") \/ SomeJob(jobs, "queued")
  THEN (IF SomeJob(jobs, "pending") THEN "pending"
        ELSE IF SomeJob(jobs, "queued") THEN "queued"
        ELSE "running")
  ELSE IF \A i \in DOMAIN jobs : jobs[i].status = "success" \/ jobs[i].status = "skipped"
  THEN "success"
  ELSE IF pipelineStatus = "queued" THEN "queued"
  ELSE IF pipelineStatus = "waiting" THEN "pending"
  ELSE "running"

\* mutant: no warning when no job has the current job's name
getCurrentJobId_SilentNoMatch(jobs, jobName, runner) ==
  LET matchingJobs == SelectSeq(jobs, LAMBDA job : job.name = jobName)
      runnerMatches == SelectSeq(matchingJobs, LAMBDA job : job.runner_name = runner)
  IN  IF Len(matchingJobs) = 0
      THEN [id |-> {}, warnings |-> <<>>]
      ELSE IF Len(matchingJobs) = 1
      THEN [id |-> {matchingJobs[1].id}, warnings |-> <<>>]
      ELSE IF Truthy(runner)
      THEN (IF Len(runnerMatches) > 0
            THEN [id |-> {runnerMatches[1].id}, warnings |-> <<>>]
            ELSE [id |-> {}, warnings |-> <<"multiple jobs found but none match runner">>])
      ELSE [id |-> {}, warnings |-> <<"multiple jobs found">>]

\* the try body of getCurrentJobId, given the listing it received: the id it
\* returns ({} for undefined, {id} for a number) and the warnings it logs
getCurrentJobId(jobs, jobName, runner) ==
  LET matchingJobs == SelectSeq(jobs, LAMBDA job : job.name = jobName)
      runnerMatches == SelectSeq(matchingJobs, LAMBDA job : job.runner_name = runner)
  IN  IF Len(matchingJobs) = 0
      THEN [id |-> {}, warnings |-> <<"no jobs found matching current job name">>]
      ELSE IF Len(matchingJobs) = 1
      THEN [id |-> {matchingJobs[1].id}, warnings |-> <<>>]
      ELSE IF Truthy(runner)
      THEN (IF Len(runnerMatches) > 0
            THEN [id |-> {runnerMatches[1].id}, warnings |-> <<>>]
            ELSE [id |-> {}, warnings |-> <<"multiple jobs found but none match runner">>])
      ELSE [id |-> {}, warnings |-> <<"multiple jobs found">>]

\* An ISO-8601 timestamp string is <<seconds, milliseconds>>; a missing
\* timestamp (null, or the empty string) is <<>>.
NoTime == <<>>

\* new Date(iso).getTime(): milliseconds since the epoch
getTime(iso) == iso[1] * 1000 + iso[2]

\* new Date(ms).toISOString()
toISOString(ms) == <<ms \div 1000, ms % 1000>>

\* an optional number is {} (undefined) or {n}
\* mutant: a missing timestamp counts as a duration of 0
jobDuration_ZeroDefault(started_at, completed_at) ==
  IF started_at # NoTime /\ completed_at # NoTime
  THEN {(getTime(completed_at) - getTime(started_at)) \div 1000}
  ELSE {0}

\* durationSeconds of one job (lines 354-359)
jobDuration(started_at, completed_at) ==
  IF started_at # NoTime /\ completed_at # NoTime
  THEN {(getTime(completed_at) - getTime(started_at)) \div 1000}
  ELSE {}

\* computeSeconds after the map callback has run over jobs[1..n]
RECURSIVE SumDurations(_, _)
SumDurations(jobs, n) ==
  IF n = 0 THEN 0
  ELSE LET d == jobDuration(jobs[n].started_at, jobs[n].completed_at)
       IN  SumDurations(jobs, n - 1) + (IF d = {} THEN 0 ELSE CHOOSE x \in d : TRUE)

\* mutant: the jobs are filtered by name instead of by id
filterJobs_ByName(rawJobs, excludeJobId) ==
  IF excludeJobId # {}
  THEN LET self == {rawJobs[i].name : i \in {k \in DOMAIN rawJobs : rawJobs[k].id \in excludeJobId}}
       IN  SelectSeq(rawJobs, LAMBDA job : job.name \notin self)
  ELSE rawJobs

\* filteredJobs (lines 347-349)
filterJobs(rawJobs, excludeJobId) ==
  IF excludeJobId # {}
  THEN SelectSeq(rawJobs, LAMBDA job : job.id \notin excludeJobId)
  ELSE rawJobs

\* mutant: compute_seconds is never reported
reportedComputeSeconds_NeverReported(computeSeconds) == {}

\* mutant: compute_seconds is reported whenever it is not negative
reportedComputeSeconds_ZeroReported(computeSeconds) ==
  IF computeSeconds >= 0 THEN {computeSeconds} ELSE {}

\* compute_seconds of the record (line 415)
reportedComputeSeconds(computeSeconds) ==
  IF computeSeconds > 0 THEN {computeSeconds} ELSE {}

\* mutant: the run's head branch is used in inline mode too
selectBranch_AlwaysHead(isInline, head_branch, branchArg) ==
  IF Truthy(head_branch) THEN head_branch ELSE branchArg

\* branchToUse (line 343)
selectBranch(isInline, head_branch, branchArg) ==
  IF ~isInline /\ Truthy(head_branch) THEN head_branch ELSE branchArg

\* mutant: inline mode always stamps the local clock
completedAtString_ClockFirst(runStatus, updated_at, isInline, now2) ==
  IF runStatus = "completed" /\ updated_at # NoTime THEN updated_at
  ELSE IF isInline THEN toISOString(now2)
  ELSE NoTime

\* completedAtString (lines 384-395); now2 is the clock read at line 394
completedAtString(runStatus, updated_at, isInline, now2) ==
  IF runStatus = "completed" /\ updated_at # NoTime THEN updated_at
  ELSE IF isInline
  THEN (IF updated_at # NoTime THEN updated_at ELSE toISOString(now2))
  ELSE NoTime

\* completedAt (lines 383-395), in milliseconds; now1 is the clock read at
\* line 393
completedAtDate(runStatus, updated_at, isInline, now1) ==
  IF runStatus = "completed" /\ updated_at # NoTime THEN {getTime(updated_at)}
  ELSE IF isInline
  THEN (IF updated_at # NoTime THEN {getTime(updated_at)} ELSE {now1})
  ELSE {}

\* mutant: no live elapsed figure for a run without a completion time
runDuration_NoLive(created_at, completedAt, now3) ==
  IF created_at # NoTime /\ completedAt # {}
  THEN {((CHOOSE c \in completedAt : TRUE) - getTime(created_at)) \div 1000}
  ELSE {}

\* durationSeconds of the run (lines 397-402); now3 is Date.now() at 401
runDuration(created_at, completedAt, now3) ==
  IF created_at # NoTime /\ completedAt # {}
  THEN {((CHOOSE c \in completedAt : TRUE) - getTime(created_at)) \div 1000}
  ELSE IF created_at # NoTime
  THEN {(now3 - getTime(created_at)) \div 1000}
  ELSE {}

\* x || fallback, for a string that may be null or empty
OrElse(x, fallback) == IF Truthy(x) THEN x ELSE fallback

\* jobMetrics (lines 353-374)
jobMetricsOf(filteredJobs) ==
  [i \in 1..Len(filteredJobs) |->
     [name             |-> filteredJobs[i].name,
      job_id           |-> ToString(filteredJobs[i].id),
      job_url          |-> OrElse(filteredJobs[i].html_url, Undefined),
      status           |-> mapJobStatus(filteredJobs[i].status, filteredJobs[i].conclusion),
      duration_seconds |-> jobDuration(filteredJobs[i].started_at,
                                       filteredJobs[i].completed_at),
      started_at       |-> filteredJobs[i].started_at,
      completed_at     |-> filteredJobs[i].completed_at]]

\* the record fetchPipelineRun returns once the run and its jobs are
\* fetched (lines 342-423); now1, now2, now3 are the clock readings of
\* lines 393, 394 and 401
fetchPipelineRun(rawRun, rawJobs, isInline, branchArg, excludeJobId, now1, now2, now3) ==
  LET filteredJobs == filterJobs(rawJobs, excludeJobId)
      jobMetrics == jobMetricsOf(filteredJobs)
      completedAt == completedAtDate(rawRun.status, rawRun.updated_at, isInline, now1)
  IN  [provider         |-> "github",
       repository       |-> "owner/repo",
       pipeline_id      |-> ToString(rawRun.workflow_id),
       pipeline_name    |-> OrElse(rawRun.name, ToString(rawRun.workflow_id)),
       run_id           |-> rawRun.id,
       run_attempt      |-> IF rawRun.run_attempt # 0 THEN rawRun.run_attempt ELSE 1,
       run_name         |-> OrElse(rawRun.display_title, Undefined),
       run_url          |-> OrElse(rawRun.html_url, Undefined),
       status           |-> inferPipelineStatusFromJobs(jobMetrics, rawRun.status,
                                                        rawRun.conclusion),
       mode             |-> IF isInline THEN "inline" ELSE "external",
       compute_seconds  |-> reportedComputeSeconds(SumDurations(filteredJobs,
                                                                Len(filteredJobs))),
       duration_seconds |-> runDuration(rawRun.created_at, completedAt, now3),
       started_at       |-> rawRun.created_at,
       completed_at     |-> completedAtString(rawRun.status, rawRun.updated_at,
                                              isInline, now2),
       triggered_by     |-> OrElse(rawRun.event, "unknown"),
       actor            |-> OrElse(rawRun.actor_login, "unknown"),
       branch           |-> OrElse(selectBranch(isInline, rawRun.head_branch, branchArg),
                                   Undefined),
       jobs             |-> jobMetrics]

\* s.startsWith(prefix)
startsWith(s, prefix) ==
  Len(s) >= Len(prefix) /\ SubSeq(s, 1, Len(prefix)) = prefix

\* the least index at which pattern occurs in s, 0 when it does not occur
indexOf(s, pattern) ==
  LET hits == {i \in 1..(Len(s) - Len(pattern) + 1) :
                 SubSeq(s, i, i + Len(pattern) - 1) = pattern}
  IN  IF hits = {} THEN 0 ELSE CHOOSE i \in hits : \A j \in hits : i <= j

\* s.replace(pattern, ""): the first occurrence of pattern is removed
removeFirst(s, pattern) ==
  LET i == indexOf(s, pattern)
  IN  IF i = 0 THEN s
      ELSE SubSeq(s, 1, i - 1) \o SubSeq(s, i + Len(pattern), Len(s))

\* mutant: refs/tags/ refs are returned as they are
extractBranchName_TagsKept(ref, headRef) ==
  IF headRef # "" THEN headRef
  ELSE IF startsWith(ref, "refs/heads/") THEN removeFirst(ref, "refs/heads/")
  ELSE ref

extractBranchName(ref, headRef) ==
  IF headRef # "" THEN headRef
  ELSE IF startsWith(ref, "refs/heads/") THEN removeFirst(ref, "refs/heads/")
  ELSE IF startsWith(ref, "refs/tags/") THEN removeFirst(ref, "refs/tags/")
  ELSE IF startsWith(ref, "refs/pull/") THEN ref
  ELSE ref

Digits == {"0", "1", "2", "3", "4", "5", "6", "7", "8", "9"}

DigitValue(c) == CHOOSE d \in 0..9 : ToString(d) = c

\* the number of leading characters of s, from index i on, that are in set
RECURSIVE RunLength(_, _, _)
RunLength(s, i, set) ==
  IF i <= Len(s) /\ SubSeq(s, i, i) \in set THEN 1 + RunLength(s, i + 1, set) ELSE 0

\* the value of the decimal digits s[i..j]
RECURSIVE DecimalValue(_, _, _)
DecimalValue(s, i, j) ==
  IF j < i THEN 0 ELSE DecimalValue(s, i, j - 1) * 10 + DigitValue(SubSeq(s, j, j))

\* parseInt(s, 10): leading blanks are skipped, a sign is accepted, then the
\* longest run of digits is read and whatever follows it is ignored;
\* {} is NaN
parseInt(s) ==
  LET blanks == RunLength(s, 1, {" "})
      signed == blanks < Len(s) /\ SubSeq(s, blanks + 1, blanks + 1) \in {"+", "-"}
      first == blanks + (IF signed THEN 2 ELSE 1)
      n == RunLength(s, first, Digits)
      magnitude == DecimalValue(s, first, first + n - 1)
  IN  IF n = 0 THEN {}
      ELSE IF signed /\ SubSeq(s, blanks + 1, blanks + 1) = "-" THEN {0 - magnitude}
      ELSE {magnitude}

JOBS_PAGE_SIZE == 100

\* the provider's answer to a request for page number page of a listing,
\* with per_page jobs to a page
PageOf(listing, per_page, page) ==
  SubSeq(listing, (page - 1) * per_page + 1,
         IF page * per_page < Len(listing) THEN page * per_page ELSE Len(listing))

\* mutant: the loop goes on until a page is empty
hasMoreAfter_UntilEmpty(pageLength) == pageLength > 0

\* hasMore after a page of pageLength jobs (line 237)
hasMoreAfter(pageLength) == pageLength = JOBS_PAGE_SIZE

----------------------------------------------------------------------------
(* State *)

VARIABLES
  pc,                    \* the step the invocation is at
  status, conclusion,    \* the arguments of mapJobStatus / mapPipelineStatus
  retMapJobStatus,       \* what mapJobStatus returned
  retMapPipelineStatus,  \* what mapPipelineStatus returned
  apiUrl, apiKey,        \* inputs runwatch_api_url, runwatch_api_key
  token,                 \* GITHUB_TOKEN
  workflowRunIdInput,    \* input workflow_run_id
  contextRunId,          \* context.runId
  dryRun,                \* input dry_run is "true"
  debug,                 \* input debug is "true"
  ref, headRef,          \* context.ref, the pull request's head ref or ""
  jobsList,              \* the provider's job listing for the run
  currentJobName,        \* context.job
  runnerName,            \* RUNNER_NAME, Undefined when not set
  runId,                 \* the run reported on: {} (NaN) or {n}
  isInlineMode,          \* runId === context.runId
  branch,                \* what extractBranchName returned
  currentJobId,          \* what getCurrentJobId returned: {} or {id}
  warnings,              \* the core.warning messages logged so far
  run,                   \* the provider's run record
  metrics,               \* the record fetchPipelineRun returned
  clock,                 \* the wall clock, in milliseconds
  clockReads,            \* the readings of the wall clock taken so far
  calls,                 \* the provider and delivery requests made so far
  thrown,                \* the errors raised so far, with who raised each
  failed,                \* the messages given to core.setFailed
  outputs,               \* the outputs given to core.setOutput
  page, hasMore, allJobs, \* the locals of listAllJobsForWorkflowRun
  pageRequests,          \* the page requests made so far
  logs,                  \* what the debug and dry-run flags made the action log
  twin                   \* what an invocation that differs in debug alone has done

classifyVars == <<status, conclusion, retMapJobStatus, retMapPipelineStatus>>

inputVars ==
  <<apiUrl, apiKey, token, workflowRunIdInput, contextRunId, dryRun, debug, ref, headRef,
    currentJobName, runnerName>>

providerVars == <<run, jobsList>>

clockVars == <<clock, clockReads>>

pagingVars == <<page, hasMore, allJobs, pageRequests>>

vars ==
  <<pc, classifyVars, inputVars, providerVars, runId, isInlineMode, branch, currentJobId,
    warnings, metrics, clockVars, calls, thrown, failed, outputs, pagingVars, logs, twin>>

\* what an invocation has done, as seen from outside
Obs ==
  [pc |-> pc, metrics |-> metrics, calls |-> calls, outputs |-> outputs, failed |-> failed]

\* a step that does not read the debug flag, or reads it only to log: the
\* twin invocation makes the same step
TwinSame == twin' = Obs'

RawRun(s, c, created, updated, head) ==
  [id |-> 0, workflow_id |-> 7, name |-> "CI", run_attempt |-> 1,
   display_title |-> "Fix build", html_url |-> "https://github.test/run",
   event |-> "push", actor_login |-> "octocat",
   status |-> s, conclusion |-> c, created_at |-> created, updated_at |-> updated,
   head_branch |-> head]

\* the record the provider returns for run id
RunResponse(r, id) == [r EXCEPT !.id = CHOOSE n \in id : TRUE]

RawJob(i, n, s, c, r, started, completed) ==
  [id |-> i, name |-> n, status |-> s, conclusion |-> c, runner_name |-> r,
   started_at |-> started, completed_at |-> completed,
   html_url |-> "https://github.test/job"]

NoRun == RawRun(Null, Null, NoTime, NoTime, Null)
NoMetrics == [status |-> Undefined, jobs |-> <<>>]

\* the values the variables have where a specification does not use them
ClassifyIdle ==
  /\ status = Null
  /\ conclusion = Null
  /\ retMapJobStatus = Undefined
  /\ retMapPipelineStatus = Undefined

InputsIdle ==
  /\ apiUrl = "https://runwatch.test/api"
  /\ apiKey = "key"
  /\ token = "token"
  /\ workflowRunIdInput = ""
  /\ contextRunId = 1
  /\ dryRun = FALSE
  /\ debug = FALSE
  /\ ref = "refs/heads/main"
  /\ headRef = ""

EffectsIdle ==
  /\ warnings = <<>>
  /\ clockReads = <<>>
  /\ calls = <<>>
  /\ thrown = <<>>
  /\ failed = <<>>
  /\ outputs = <<>>

\* nothing logged; the twin invocation is where this one is
TwinIdle ==
  /\ logs = <<>>
  /\ twin = Obs

PagingIdle ==
  /\ page = 1
  /\ hasMore = TRUE
  /\ allJobs = <<>>
  /\ pageRequests = <<>>

----------------------------------------------------------------------------
(* mapJobStatus / mapPipelineStatus applied to one raw pair *)

InitClassify ==
  /\ pc = "classify"
  /\ status \in PipelineStates
  /\ conclusion \in Conclusions
  /\ retMapJobStatus = Undefined
  /\ retMapPipelineStatus = Undefined
  /\ InputsIdle
  /\ jobsList = <<>>
  /\ currentJobName = Undefined
  /\ runnerName = Undefined
  /\ runId = {}
  /\ isInlineMode = FALSE
  /\ branch = Undefined
  /\ currentJobId = {}
  /\ run = NoRun
  /\ metrics = NoMetrics
  /\ clock = 0
  /\ EffectsIdle
  /\ TwinIdle
  /\ PagingIdle

\* a job's status is a string, never null
MapJobStatus ==
  /\ pc = "classify"
  /\ status # Null
  /\ retMapJobStatus = Undefined
  /\ retMapJobStatus' = mapJobStatus(status, conclusion)
  /\ UNCHANGED <<logs, twin, pagingVars, pc, status, conclusion, retMapPipelineStatus, inputVars, providerVars,
                 runId, isInlineMode, branch, currentJobId, warnings, metrics, clockVars,
                 calls, thrown, failed, outputs>>

MapPipelineStatus ==
  /\ pc = "classify"
  /\ retMapPipelineStatus = Undefined
  /\ retMapPipelineStatus' = mapPipelineStatus(status, conclusion)
  /\ UNCHANGED <<logs, twin, pagingVars, pc, status, conclusion, retMapJobStatus, inputVars, providerVars,
                 runId, isInlineMode, branch, currentJobId, warnings, metrics, clockVars,
                 calls, thrown, failed, outputs>>

NextClassify == MapJobStatus \/ MapPipelineStatus

SpecClassify == InitClassify /\ [][NextClassify]_vars

----------------------------------------------------------------------------
(* getCurrentJobId *)

\* listings of at most MaxJobs running jobs; ids are unique, names and
\* runner names may repeat, a job may have no runner
SelfJobShapes == JobNames \X ({Null} \cup RunnerNames)

SelfJobLists(max) ==
  UNION { { [i \in 1..n |->
               RawJob(i, f[i][1], "in_progress", Null, f[i][2], <<1, 0>>, NoTime)] :
              f \in [1..n -> SelfJobShapes] } : n \in 0..max }

InitSelf ==
  /\ pc = "getCurrentJobId"
  /\ jobsList \in SelfJobLists(MaxJobs)
  /\ currentJobName \in JobNames
  /\ runnerName \in {Undefined} \cup RunnerNames
  /\ InputsIdle
  /\ runId = {1}
  /\ isInlineMode = TRUE
  /\ branch = "main"
  /\ currentJobId = {}
  /\ run = NoRun
  /\ metrics = NoMetrics
  /\ clock = 0
  /\ EffectsIdle
  /\ TwinIdle
  /\ PagingIdle
  /\ ClassifyIdle

\* the listing succeeds
GetCurrentJobId ==
  /\ pc = "getCurrentJobId"
  /\ LET r == getCurrentJobId(jobsList, currentJobName, runnerName)
     IN  /\ currentJobId' = r.id
         /\ warnings' = warnings \o r.warnings
  /\ calls' = Append(calls, [api |-> "listJobsForWorkflowRun", ok |-> TRUE])
  /\ pc' = "fetchPipelineRun"
  /\ UNCHANGED <<logs, pagingVars, classifyVars, inputVars, providerVars, runId, isInlineMode, branch,
                 metrics, clockVars, thrown, failed, outputs>>
  /\ TwinSame

\* the listing throws: the catch block warns and returns undefined
GetCurrentJobIdCatch ==
  /\ pc = "getCurrentJobId"
  /\ currentJobId' = {}
  /\ warnings' = Append(warnings, "could not identify current job id")
  /\ calls' = Append(calls, [api |-> "listJobsForWorkflowRun", ok |-> FALSE])
  /\ pc' = "fetchPipelineRun"
  /\ UNCHANGED <<logs, pagingVars, classifyVars, inputVars, providerVars, runId, isInlineMode, branch,
                 metrics, clockVars, thrown, failed, outputs>>
  /\ TwinSame

NextSelf == GetCurrentJobId \/ GetCurrentJobIdCatch

SpecSelf == InitSelf /\ [][NextSelf]_vars

----------------------------------------------------------------------------
(* fetchPipelineRun *)

\* raw (status, conclusion) pairs of jobs: one for each status a job can be
\* published with, and a completed job with an outcome the code rejects (the
\* mapping of every other raw pair is covered by SpecClassify)
StatusJobShapes ==
  ({"completed"} \X (VALID_JOB_CONCLUSIONS \cup {"neutral"}))
    \cup ({"queued", "in_progress", "waiting"} \X {Null})

\* the reporting job ("test") is listed first, the others are "build" jobs
StatusJobLists(max) ==
  UNION { { [i \in 1..n |->
               RawJob(i, IF i = 1 THEN "test" ELSE "build", f[i][1], f[i][2], Null,
                      IF f[i][1] = "queued" THEN NoTime ELSE <<1, 0>>,
                      IF f[i][1] = "completed" THEN <<2, 0>> ELSE NoTime)] :
              f \in [1..n -> StatusJobShapes] } : n \in 0..max }

\* a completed run with every outcome code, a run in every other state
\* with no outcome and with a stale one
StatusRunShapes ==
  ({"completed"} \X Conclusions)
    \cup ((PipelineStates \ {"completed"}) \X {Null, "success"})

\* the clock may advance by up to MaxTick milliseconds between two readings
MaxTick == 1

\* the wall clock when fetchPipelineRun is entered: just before, and on, a
\* whole second
ClockStarts == {4999, 5000}

InitStatus ==
  /\ pc = "fetchPipelineRun"
  /\ jobsList \in StatusJobLists(MaxJobs)
  /\ run \in { RawRun(p[1], p[2], <<1, 0>>, <<3, 0>>, "main") : p \in StatusRunShapes }
  /\ currentJobName = "test"
  /\ runnerName = Undefined
  /\ InputsIdle
  /\ runId = {1}
  /\ isInlineMode = TRUE
  /\ branch = "main"
  /\ currentJobId \in {{}, {1}}
  /\ metrics = NoMetrics
  /\ clock = 5000
  /\ EffectsIdle
  /\ TwinIdle
  /\ PagingIdle
  /\ ClassifyIdle

\* the clock readings fetchPipelineRun takes for this run: two (lines 393
\* and 394) in inline mode when the run carries no update timestamp, one
\* (line 401) when the run has a start but no completion time, else none
ReadsCompletion ==
  /\ ~(run.status = "completed" /\ run.updated_at # NoTime)
  /\ isInlineMode
  /\ run.updated_at = NoTime

ReadsElapsed ==
  /\ run.created_at # NoTime
  /\ completedAtDate(run.status, run.updated_at, isInlineMode, clock) = {}

\* getWorkflowRun and the job listing succeed
FetchPipelineRun ==
  /\ pc = "fetchPipelineRun"
  /\ \E d1, d2 \in 0..MaxTick :
       LET now1 == clock + d1
           now2 == now1 + d2
           now3 == clock + d1
       IN  /\ (~ReadsCompletion /\ ~ReadsElapsed) => (d1 = 0)
           /\ ~ReadsCompletion => (d2 = 0)
           /\ metrics' = fetchPipelineRun(RunResponse(run, runId), jobsList, isInlineMode,
                                          branch, currentJobId, now1, now2, now3)
           /\ clockReads' = clockReads \o
                (IF ReadsCompletion THEN <<now1, now2>>
                 ELSE IF ReadsElapsed THEN <<now3>> ELSE <<>>)
           /\ clock' = IF ReadsCompletion THEN now2 ELSE now1
  /\ calls' = calls \o <<[api |-> "getWorkflowRun", ok |-> TRUE],
                         [api |-> "listJobsForWorkflowRun", ok |-> TRUE]>>
  /\ pc' = "sendMetrics"
  /\ UNCHANGED <<pagingVars, classifyVars, inputVars, providerVars, runId, isInlineMode,
                 branch,
                 currentJobId, warnings, thrown, failed, outputs>>
  /\ logs' = logs \o (IF debug THEN <<"debug: pipeline run", "debug: pipeline jobs">>
                       ELSE <<>>)
  /\ TwinSame

NextStatus == FetchPipelineRun

SpecStatus == InitStatus /\ [][NextStatus]_vars

----------------------------------------------------------------------------
(* fetchPipelineRun over jobs with and without timestamps *)

\* (started_at, completed_at) of a job: either or both missing, equal, a
\* whole number of seconds apart, a fraction of a second more or less than
\* one, and an end before the start
JobTimeShapes ==
  { <<NoTime, NoTime>>, <<<<1, 0>>, NoTime>>, <<NoTime, <<2, 0>>>>,
    <<<<1, 0>>, <<1, 0>>>>, <<<<1, 0>>, <<3, 0>>>>, <<<<1, 500>>, <<3, 0>>>>,
    <<<<1, 0>>, <<1, 999>>>>, <<<<2, 0>>, <<1, 500>>>> }

TimedJobLists(max) ==
  UNION { { [i \in 1..n |->
               RawJob(i, IF i = 1 THEN "test" ELSE "build", "completed", "success", Null,
                      f[i][1], f[i][2])] :
              f \in [1..n -> JobTimeShapes] } : n \in 0..max }

InitJobTiming ==
  /\ pc = "fetchPipelineRun"
  /\ run = RawRun("completed", "success", <<1, 0>>, <<3, 0>>, "main")
  /\ jobsList \in TimedJobLists(MaxJobs)
  /\ currentJobName = "test"
  /\ runnerName = Undefined
  /\ InputsIdle
  /\ runId = {1}
  /\ isInlineMode = TRUE
  /\ branch = "main"
  /\ currentJobId \in {{}, {1}}
  /\ metrics = NoMetrics
  /\ clock = 5000
  /\ EffectsIdle
  /\ TwinIdle
  /\ PagingIdle
  /\ ClassifyIdle

NextJobTiming == FetchPipelineRun

SpecJobTiming == InitJobTiming /\ [][NextJobTiming]_vars

----------------------------------------------------------------------------
(* fetchPipelineRun over runs with and without timestamps, in both modes *)

\* a completed and a running run, with and without its creation and update
\* timestamps, with no head branch, an empty one and one of its own
TimedRuns ==
  { RawRun(p[1], p[2], created, updated, head) :
      p \in {<<"completed", "success">>, <<"in_progress", Null>>},
      created \in {NoTime, <<1, 0>>},
      updated \in {NoTime, <<3, 0>>, <<3, 500>>},
      head \in {Null, "", "feature"} }

InitRunFields ==
  /\ pc = "fetchPipelineRun"
  /\ run \in TimedRuns
  /\ jobsList = <<RawJob(1, "build", "completed", "success", Null, <<1, 0>>, <<2, 0>>)>>
  /\ currentJobName = "test"
  /\ runnerName = Undefined
  /\ InputsIdle
  /\ isInlineMode \in BOOLEAN
  /\ runId = IF isInlineMode THEN {contextRunId} ELSE {contextRunId + 1}
  /\ branch \in {"", "main"}
  /\ currentJobId = {}
  /\ metrics = NoMetrics
  /\ clock \in ClockStarts
  /\ EffectsIdle
  /\ TwinIdle
  /\ PagingIdle
  /\ ClassifyIdle

NextRunFields == FetchPipelineRun

SpecRunFields == InitRunFields /\ [][NextRunFields]_vars

----------------------------------------------------------------------------
(* extractBranchName applied to one (ref, head ref) pair *)

\* refs are built from at most MaxRefParts of these pieces
MaxRefParts == 2

RefParts == {"refs/heads/", "refs/tags/", "refs/pull/", "refs/", "main", "v1", "42/merge"}

RECURSIVE Concat(_)
Concat(parts) == IF parts = <<>> THEN "" ELSE Head(parts) \o Concat(Tail(parts))

RefStrings == UNION { { Concat(f) : f \in [1..n -> RefParts] } : n \in 0..MaxRefParts }

InitBranch ==
  /\ pc = "extractBranchName"
  /\ ref \in RefStrings
  /\ headRef \in {"", "feature/x", "refs/heads/x"}
  /\ branch = Undefined
  /\ apiUrl = "https://runwatch.test/api"
  /\ apiKey = "key"
  /\ token = "token"
  /\ workflowRunIdInput = ""
  /\ contextRunId = 1
  /\ dryRun = FALSE
  /\ debug = FALSE
  /\ jobsList = <<>>
  /\ currentJobName = Undefined
  /\ runnerName = Undefined
  /\ runId = {}
  /\ isInlineMode = FALSE
  /\ currentJobId = {}
  /\ run = NoRun
  /\ metrics = NoMetrics
  /\ clock = 0
  /\ EffectsIdle
  /\ TwinIdle
  /\ PagingIdle
  /\ ClassifyIdle

ExtractBranchName ==
  /\ pc = "extractBranchName"
  /\ branch' = extractBranchName(ref, headRef)
  /\ pc' = "done"
  /\ UNCHANGED <<logs, twin, pagingVars, classifyVars, inputVars, providerVars, runId, isInlineMode, currentJobId,
                 warnings, metrics, clockVars, calls, thrown, failed, outputs>>

NextBranch == ExtractBranchName

SpecBranch == InitBranch /\ [][NextBranch]_vars

----------------------------------------------------------------------------
(* run: one invocation of the action, from its inputs to its outputs *)

\* values of the workflow_run_id input: not given, the invoking run, another
\* run, not positive, not a number, a number followed by something else
RunIdInputs == {"", "1", "2", "0", "-1", "x", "1x"}

\* jobs of the run reported on: names and runner names may repeat
RunJobShapes == JobNames \X {Null, "runner-a"}

RunJobLists(max) ==
  UNION { { [i \in 1..n |->
               RawJob(i, f[i][1], "completed", "success", f[i][2], <<1, 0>>, <<2, 0>>)] :
              f \in [1..n -> RunJobShapes] } : n \in 0..max }

\* what the provider's run lookup and job listing may throw: an HTTP error
\* with its status, and a value that is not an Error
LookupErrors ==
  { [isError |-> TRUE, status |-> {404},
     message |-> [kind |-> "Not Found", mentions |-> {}]],
    [isError |-> TRUE, status |-> {403},
     message |-> [kind |-> "Resource not accessible", mentions |-> {}]],
    [isError |-> FALSE, status |-> {},
     message |-> [kind |-> "", mentions |-> {}]] }

ListErrors ==
  { [isError |-> TRUE, status |-> {500},
     message |-> [kind |-> "Server Error", mentions |-> {}]] }

\* what fetch may throw: a network error with a cause, the abort of the
\* timeout, and a value that is not an Error
FetchErrors ==
  { [isError |-> TRUE, name |-> "TypeError", message |-> "fetch failed",
     cause |-> "ECONNREFUSED"],
    [isError |-> TRUE, name |-> "AbortError", message |-> "This operation was aborted",
     cause |-> ""],
    [isError |-> FALSE, name |-> "Error", message |-> "boom", cause |-> ""] }

FETCH_TIMEOUT_MS == 60000

\* the message run's catch block gives to core.setFailed (lines 563-569)
CatchMessage(e) ==
  IF e.isError THEN e.message
  ELSE [kind |-> "Unknown error occurred", mentions |-> {}]

\* new Error(message); a message is what it says (kind) and the values it
\* names (mentions)
NewError(message) == [isError |-> TRUE, status |-> {}, message |-> message]

\* mutant: every failed lookup is reported as not found
lookupFailure_AlwaysNotFound(e, id) ==
  NewError([kind |-> "Workflow run not found",
            mentions |-> {ToString(CHOOSE n \in id : TRUE), "owner/repo",
                          "Check run ID and repository access (GITHUB_TOKEN permissions)"}])

\* what fetchPipelineRun throws when getWorkflowRun threw e (lines 319-330)
lookupFailure(e, id) ==
  IF e.status = {404}
  THEN NewError([kind |-> "Workflow run not found",
                 mentions |-> {ToString(CHOOSE n \in id : TRUE), "owner/repo",
                               "Check run ID and repository access (GITHUB_TOKEN permissions)"}])
  ELSE e

\* "Request timed out after 60s."
TimeoutHint == "Request timed out after " \o ToString(FETCH_TIMEOUT_MS \div 1000) \o "s."

\* the message sendMetrics throws when fetch threw e (lines 459-471)
sendThrowMessage(url, e) ==
  [kind |-> "Failed to send metrics to",
   mentions |-> {url, e.message}
                  \cup (IF e.cause # "" THEN {e.cause} ELSE {})
                  \cup (IF e.name = "AbortError" THEN {TimeoutHint} ELSE {})]

\* an answer of the endpoint that is not a success
ErrorResponses ==
  { [status |-> "500", statusText |-> "Internal Server Error", text |-> "error text"] }

\* the message sendMetrics throws for a response r that is not ok (lines
\* 475-480)
sendNotOkMessage(url, r) ==
  [kind |-> "Failed to send metrics", mentions |-> {r.status, r.statusText, r.text}]

\* the inputs are supplied and valid up to the run id; the provider's state
\* matters only then
ConfigSupplied == apiUrl # "" /\ apiKey # "" /\ token # ""

\* (runwatch_api_url, runwatch_api_key, GITHUB_TOKEN): all supplied, or one
\* of them missing
ConfigShapes ==
  { <<"https://runwatch.test/api", "key", "token">>,
    <<"", "key", "token">>,
    <<"https://runwatch.test/api", "", "token">>,
    <<"https://runwatch.test/api", "key", "">> }

Init ==
  /\ pc = "start"
  /\ \E c \in ConfigShapes : apiUrl = c[1] /\ apiKey = c[2] /\ token = c[3]
  /\ workflowRunIdInput \in RunIdInputs
  /\ contextRunId = 1
  /\ ref = "refs/heads/main"
  /\ headRef = ""
  /\ IF ConfigSupplied /\ workflowRunIdInput \in {"", "1", "2", "1x"}
     THEN /\ dryRun \in BOOLEAN
          /\ jobsList \in RunJobLists(MaxJobs)
          /\ currentJobName \in {"", "build"}
          /\ runnerName \in {Undefined, "runner-a"}
     ELSE /\ dryRun = FALSE
          /\ jobsList = <<>>
          /\ currentJobName = "build"
          /\ runnerName = Undefined
  /\ debug = FALSE
  /\ run = RawRun("in_progress", Null, <<1, 0>>, <<3, 0>>, "main")
  /\ runId = {}
  /\ isInlineMode = FALSE
  /\ branch = Undefined
  /\ currentJobId = {}
  /\ metrics = NoMetrics
  /\ clock = 5000
  /\ EffectsIdle
  /\ TwinIdle
  /\ PagingIdle
  /\ ClassifyIdle

\* mutant: the failure is reported twice
Fail_ReportedTwice(by, e) ==
  /\ thrown' = Append(thrown, [by |-> by, error |-> e])
  /\ failed' = failed \o <<CatchMessage(e), CatchMessage(e)>>
  /\ pc' = "done"

\* by throws e inside run's try block: the catch block gives its message to
\* core.setFailed and the invocation ends
Fail(by, e) ==
  /\ thrown' = Append(thrown, [by |-> by, error |-> e])
  /\ failed' = Append(failed, CatchMessage(e))
  /\ pc' = "done"

\* run, from reading the inputs to the first provider call (lines 486-547)
Start ==
  /\ pc = "start"
  /\ LET id == IF workflowRunIdInput # "" THEN parseInt(workflowRunIdInput)
               ELSE {contextRunId}
         inline == id = {contextRunId}
     IN  IF apiUrl = ""
         THEN /\ Fail("getInput", NewError([kind |-> "Input required and not supplied",
                                             mentions |-> {"runwatch_api_url"}]))
              /\ UNCHANGED <<runId, isInlineMode, branch, warnings>>
         ELSE IF apiKey = ""
         THEN /\ Fail("getInput", NewError([kind |-> "Input required and not supplied",
                                             mentions |-> {"runwatch_api_key"}]))
              /\ UNCHANGED <<runId, isInlineMode, branch, warnings>>
         ELSE IF token = ""
         THEN /\ Fail("run", NewError([kind |-> "GITHUB_TOKEN is not set",
                                        mentions |-> {}]))
              /\ UNCHANGED <<runId, isInlineMode, branch, warnings>>
         ELSE IF id = {} \/ (\E n \in id : n <= 0)
         THEN /\ runId' = id
              /\ Fail("run", NewError([kind |-> "Invalid workflow_run_id",
                                        mentions |-> {OrElse(workflowRunIdInput,
                                                             "not provided")}]))
              /\ UNCHANGED <<isInlineMode, branch, warnings>>
         ELSE /\ runId' = id
              /\ isInlineMode' = inline
              /\ branch' = extractBranchName(ref, headRef)
              /\ IF inline /\ currentJobName # ""
                 THEN pc' = "getCurrentJobId" /\ UNCHANGED warnings
                 ELSE /\ pc' = "fetchPipelineRun"
                      /\ warnings' = IF inline
                                     THEN Append(warnings, "missing job name")
                                     ELSE warnings
              /\ UNCHANGED <<thrown, failed>>
  /\ UNCHANGED <<logs, pagingVars, classifyVars, inputVars, providerVars, currentJobId, metrics, clockVars,
                 calls, outputs>>
  /\ TwinSame

\* getWorkflowRun throws: a 404 is reported as a not-found error of its own,
\* anything else is thrown on as it is (lines 319-330)
FetchPipelineRunLookupFails ==
  /\ pc = "fetchPipelineRun"
  /\ \E e \in LookupErrors :
       /\ thrown' = thrown \o <<[by |-> "getWorkflowRun", error |-> e],
                                 [by |-> "fetchPipelineRun",
                                  error |-> lookupFailure(e, runId)]>>
       /\ failed' = Append(failed, CatchMessage(lookupFailure(e, runId)))
       /\ pc' = "done"
  /\ calls' = Append(calls, [api |-> "getWorkflowRun", ok |-> FALSE])
  /\ UNCHANGED <<logs, pagingVars, classifyVars, inputVars, providerVars, runId, isInlineMode, branch,
                 currentJobId, warnings, metrics, clockVars, outputs>>
  /\ TwinSame

\* getWorkflowRun succeeds and the job listing throws (line 336)
FetchPipelineRunListFails ==
  /\ pc = "fetchPipelineRun"
  /\ \E e \in ListErrors : Fail("listJobsForWorkflowRun", e)
  /\ calls' = calls \o <<[api |-> "getWorkflowRun", ok |-> TRUE],
                         [api |-> "listJobsForWorkflowRun", ok |-> FALSE]>>
  /\ UNCHANGED <<pagingVars, classifyVars, inputVars, providerVars, runId, isInlineMode,
                 branch,
                 currentJobId, warnings, metrics, clockVars, outputs>>
  /\ logs' = logs \o (IF debug THEN <<"debug: pipeline run">> ELSE <<>>)
  /\ TwinSame

\* the outputs run sets from the record m (lines 561-562)
OutputsOf(m) ==
  <<[name |-> "pipeline_run_id", value |-> ToString(m.run_id)],
    [name |-> "status", value |-> m.status]>>

\* core.setOutput of the run id and the status (lines 561-562)
SetOutputs ==
  /\ outputs' = outputs \o OutputsOf(metrics)
  /\ pc' = "done"

\* sendMetrics logs the payload (line 435)
logsPayload(dry, dbg) == dbg \/ dry

\* mutant: the request is skipped in debug mode too
skipsDelivery_DebugToo(dry, dbg) == dbg \/ dry

\* sendMetrics returns before the request (lines 435-441)
skipsDelivery(dry, dbg) == (dbg \/ dry) /\ dry

\* the step of the twin invocation when this one is in sendMetrics: the same
\* step when both send or both skip; else the twin skips the request where
\* this one sends, or sends (and is answered) where this one skips
TwinAfterDelivery ==
  IF skipsDelivery(dryRun, ~debug) = skipsDelivery(dryRun, debug) THEN Obs'
  ELSE IF skipsDelivery(dryRun, ~debug)
  THEN [twin EXCEPT !.pc = "done", !.outputs = twin.outputs \o OutputsOf(twin.metrics)]
  ELSE [twin EXCEPT !.pc = "done", !.outputs = twin.outputs \o OutputsOf(twin.metrics),
                    !.calls = Append(twin.calls, [api |-> "fetch", ok |-> TRUE])]

\* dry run: nothing is sent (lines 435-441)
SendMetricsDryRun ==
  /\ pc = "sendMetrics"
  /\ skipsDelivery(dryRun, debug)
  /\ SetOutputs
  /\ UNCHANGED <<pagingVars, classifyVars, inputVars, providerVars, runId, isInlineMode,
                 branch,
                 currentJobId, warnings, metrics, clockVars, calls, thrown, failed>>
  /\ logs' = logs \o (IF logsPayload(dryRun, debug) THEN <<"info: JSON Payload">> ELSE <<>>)
  /\ twin' = TwinAfterDelivery

\* the endpoint answers with a success status
SendMetrics ==
  /\ pc = "sendMetrics"
  /\ ~skipsDelivery(dryRun, debug)
  /\ calls' = Append(calls, [api |-> "fetch", ok |-> TRUE])
  /\ SetOutputs
  /\ UNCHANGED <<pagingVars, classifyVars, inputVars, providerVars, runId, isInlineMode,
                 branch,
                 currentJobId, warnings, metrics, clockVars, thrown, failed>>
  /\ logs' = logs \o (IF logsPayload(dryRun, debug) THEN <<"info: JSON Payload">> ELSE <<>>)
  /\ twin' = TwinAfterDelivery

\* fetch throws, or is aborted after FETCH_TIMEOUT_MS (lines 459-471)
SendMetricsThrows ==
  /\ pc = "sendMetrics"
  /\ ~skipsDelivery(dryRun, debug)
  /\ calls' = Append(calls, [api |-> "fetch", ok |-> FALSE])
  /\ \E e \in FetchErrors :
       /\ thrown' = thrown \o <<[by |-> "fetch", error |-> e],
                                 [by |-> "sendMetrics",
                                  error |-> NewError(sendThrowMessage(apiUrl, e))]>>
       /\ failed' = Append(failed, sendThrowMessage(apiUrl, e))
       /\ pc' = "done"
  /\ UNCHANGED <<pagingVars, classifyVars, inputVars, providerVars, runId, isInlineMode,
                 branch,
                 currentJobId, warnings, metrics, clockVars, outputs>>
  /\ logs' = logs \o (IF logsPayload(dryRun, debug) THEN <<"info: JSON Payload">> ELSE <<>>)
  /\ twin' = TwinAfterDelivery

\* the endpoint answers with a status that is not a success (lines 475-480)
SendMetricsNotOk ==
  /\ pc = "sendMetrics"
  /\ ~skipsDelivery(dryRun, debug)
  /\ calls' = Append(calls, [api |-> "fetch", ok |-> FALSE])
  /\ \E r \in ErrorResponses : Fail("sendMetrics", NewError(sendNotOkMessage(apiUrl, r)))
  /\ UNCHANGED <<pagingVars, classifyVars, inputVars, providerVars, runId, isInlineMode,
                 branch,
                 currentJobId, warnings, metrics, clockVars, outputs>>
  /\ logs' = logs \o (IF logsPayload(dryRun, debug) THEN <<"info: JSON Payload">> ELSE <<>>)
  /\ twin' = TwinAfterDelivery

Next ==
  \/ Start
  \/ GetCurrentJobId
  \/ GetCurrentJobIdCatch
  \/ FetchPipelineRun
  \/ FetchPipelineRunLookupFails
  \/ FetchPipelineRunListFails
  \/ SendMetricsDryRun
  \/ SendMetrics
  \/ SendMetricsThrows
  \/ SendMetricsNotOk

Spec == Init /\ [][Next]_vars

----------------------------------------------------------------------------
(* listAllJobsForWorkflowRun: the paging loop, one request at a time *)

\* the run has at most MaxListed jobs
MaxListed == 201

ListedJobs(n) ==
  [i \in 1..n |-> RawJob(i, "build", "completed", "success", Null, <<1, 0>>, <<2, 0>>)]

InitPaging ==
  /\ pc = "listAllJobsForWorkflowRun"
  /\ \E n \in 0..MaxListed : jobsList = ListedJobs(n)
  /\ PagingIdle
  /\ currentJobName = "build"
  /\ runnerName = Undefined
  /\ InputsIdle
  /\ runId = {1}
  /\ isInlineMode = TRUE
  /\ branch = "main"
  /\ currentJobId = {}
  /\ run = NoRun
  /\ metrics = NoMetrics
  /\ clock = 0
  /\ EffectsIdle
  /\ TwinIdle
  /\ ClassifyIdle

\* one pass of the loop (lines 228-239): the request for the next page is
\* answered, the page is appended, and the loop ends if the page is short
ListJobsPage ==
  /\ pc = "listAllJobsForWorkflowRun"
  /\ hasMore
  /\ LET data == PageOf(jobsList, JOBS_PAGE_SIZE, page)
     IN  /\ pageRequests' = Append(pageRequests, [per_page |-> JOBS_PAGE_SIZE, page |-> page])
         /\ allJobs' = allJobs \o data
         /\ hasMore' = hasMoreAfter(Len(data))
         /\ page' = page + 1
         /\ pc' = IF hasMoreAfter(Len(data)) THEN pc ELSE "listed"
  /\ UNCHANGED <<logs, twin, classifyVars, inputVars, providerVars, runId, isInlineMode, branch,
                 currentJobId, warnings, metrics, clockVars, calls, thrown, failed, outputs>>

NextPaging == ListJobsPage

\* every request is answered, so a pass of the loop that can be made is made
SpecPaging == InitPaging /\ [][NextPaging]_vars /\ WF_vars(ListJobsPage)

----------------------------------------------------------------------------
(* run, with and without the debug flag *)

\* invocations with valid inputs, in inline and in external mode, with and
\* without dry run and debug, over one listing of the run's jobs
InitDebug ==
  /\ pc = "start"
  /\ apiUrl = "https://runwatch.test/api"
  /\ apiKey = "key"
  /\ token = "token"
  /\ workflowRunIdInput \in {"", "2"}
  /\ contextRunId = 1
  /\ ref = "refs/heads/main"
  /\ headRef = ""
  /\ dryRun \in BOOLEAN
  /\ debug \in BOOLEAN
  /\ jobsList = <<RawJob(1, "build", "completed", "success", "runner-a", <<1, 0>>, <<2, 0>>),
                  RawJob(2, "test", "in_progress", Null, Null, <<1, 0>>, NoTime)>>
  /\ currentJobName \in {"", "build", "test"}
  /\ runnerName = "runner-a"
  /\ run \in { RawRun("in_progress", Null, <<1, 0>>, updated, "main") :
                 updated \in {NoTime, <<3, 0>>} }
  /\ runId = {}
  /\ isInlineMode = FALSE
  /\ branch = Undefined
  /\ currentJobId = {}
  /\ metrics = NoMetrics
  /\ clock \in ClockStarts
  /\ EffectsIdle
  /\ TwinIdle
  /\ PagingIdle
  /\ ClassifyIdle

SpecDebug == InitDebug /\ [][Next]_vars

----------------------------------------------------------------------------
(* Properties *)

ClosedStatusSet ==
  {"success", "failure", "cancelled", "skipped", "timed_out",
   "running", "queued", "pending", "unknown"}

ValidOutcomes == {"success", "failure", "cancelled", "skipped", "timed_out"}

\* fetchPipelineRun has returned the record
Published == pc = "sendMetrics"

\* some published job has status s
Has(s) == \E i \in DOMAIN metrics.jobs : metrics.jobs[i].status = s

RunCompletedValid == run.status = "completed" /\ run.conclusion \in ValidOutcomes

\* C1: the status of the published record and the status of every published
\* job are members of the closed status set, whatever the raw states and
\* outcome codes of the run and of its jobs are.
C1_StatusesInClosedSet ==
  Published =>
    /\ metrics.status \in ClosedStatusSet
    /\ \A i \in DOMAIN metrics.jobs : metrics.jobs[i].status \in ClosedStatusSet

\* a completed run and a published completed job, both with the outcome
\* code "neutral", which is outside the set
C1_Witness ==
  /\ Published
  /\ run.status = "completed" /\ run.conclusion = "neutral"
  /\ currentJobId = {}
  /\ \E i \in DOMAIN jobsList :
       /\ jobsList[i].status = "completed" /\ jobsList[i].conclusion = "neutral"
       /\ metrics.jobs[i].status = "running"
  /\ metrics.status = "running"

\* C2: with a failed job in the published list and the run not completed
\* with a valid outcome, the inferred status is failure, whatever the raw
\* state and outcome of the run are.
C2_FailureNeverMasked ==
  (Published /\ Has("failure") /\ ~RunCompletedValid) => metrics.status = "failure"

\* C3: run not completed, no failed job, some cancelled job: the inferred
\* status is cancelled.
C3_CancelledPrecedence ==
  (Published /\ run.status # "completed" /\ ~Has("failure") /\ Has("cancelled"))
    => metrics.status = "cancelled"

C3_Witness ==
  /\ Published
  /\ run.status = "in_progress"
  /\ Has("cancelled") /\ Has("success") /\ Has("running")
  /\ metrics.status = "cancelled"

\* C4: run completed with a valid outcome: the inferred status is that
\* outcome, for every job list.
C4_GroundTruthWins ==
  (Published /\ RunCompletedValid) => metrics.status = run.conclusion

C4_Witness ==
  /\ Published
  /\ run.status = "completed" /\ run.conclusion = "success"
  /\ Has("failure") /\ Has("cancelled") /\ Has("running")
  /\ metrics.status = "success"

\* C5: run not completed: the inferred status is success if and only if
\* the published job list is non-empty and every job in it is success or
\* skipped.
C5_SuccessIffAllDone ==
  (Published /\ run.status # "completed") =>
    (metrics.status = "success" <=>
       /\ Len(metrics.jobs) > 0
       /\ \A i \in DOMAIN metrics.jobs : metrics.jobs[i].status \in {"success", "skipped"})

C5_Witness ==
  /\ Published
  /\ run.status = "in_progress"
  /\ Len(metrics.jobs) = 2
  /\ metrics.jobs[1].status = "success" /\ metrics.jobs[2].status = "skipped"
  /\ metrics.status = "success"

\* C6: run not completed, no failed or cancelled job, some job running,
\* pending or queued: the inferred status is pending if a job is pending,
\* else queued if a job is queued, else running.
C6_ActivePrecedence ==
  (/\ Published
   /\ run.status # "completed"
   /\ ~Has("failure") /\ ~Has("cancelled")
   /\ (Has("running") \/ Has("pending") \/ Has("queued")))
    => metrics.status =
         (IF Has("pending") THEN "pending" ELSE IF Has("queued") THEN "queued" ELSE "running")

C6_Witness ==
  /\ Published
  /\ run.status = "in_progress"
  /\ Has("running") /\ Has("pending") /\ Has("queued")
  /\ metrics.status = "pending"

LiveStatus(s) ==
  CASE s = "queued" -> "queued"
    [] s = "in_progress" -> "running"
    [] s = "waiting" -> "pending"
    [] OTHER -> "running"

SelfResolved == pc = "fetchPipelineRun"

\* the listed jobs named as the current job, and those of them on the
\* current runner
NameMatches == {i \in DOMAIN jobsList : jobsList[i].name = currentJobName}
RunnerMatches == {i \in NameMatches : jobsList[i].runner_name = runnerName}

\* C9: with more than one job named as the current job, an id is returned
\* only if a runner name was supplied and exactly one of those jobs has
\* that runner name, and it is that job's id.
C9_NeverGuesses ==
  (SelfResolved /\ Cardinality(NameMatches) > 1 /\ currentJobId # {}) =>
    /\ runnerName # Undefined
    /\ Cardinality(RunnerMatches) = 1
    /\ currentJobId = {jobsList[i].id : i \in RunnerMatches}

\* C10: a call that returns none has logged exactly one warning, a call
\* that returns an id has logged none; no job or several jobs of the
\* current name with no runner name supplied give none.
C10_OneWarningIffNone ==
  SelfResolved =>
    /\ currentJobId = {} => Len(warnings) = 1
    /\ currentJobId # {} => Len(warnings) = 0
    /\ Cardinality(NameMatches) = 0 => currentJobId = {}
    /\ (Cardinality(NameMatches) > 1 /\ runnerName = Undefined) => currentJobId = {}

C10_Witness ==
  /\ SelfResolved
  /\ Len(jobsList) = 2
  /\ jobsList[1].name = "build" /\ jobsList[2].name = "build"
  /\ currentJobName = "build"
  /\ runnerName = Undefined
  /\ currentJobId = {}
  /\ warnings = <<"multiple jobs found">>

BranchResolved == pc = "done" /\ branch # Undefined

\* C19: extractBranchName returns a value for every pair; a non-empty head
\* ref is returned verbatim whatever the ref is; otherwise a ref that
\* starts with refs/heads/ or refs/tags/ is returned without exactly that
\* leading prefix; otherwise the ref is returned unchanged.
C19_BranchPriority ==
  (pc = "done") =>
    /\ branch # Undefined
    /\ (headRef # "") => (branch = headRef)
    /\ (headRef = "" /\ startsWith(ref, "refs/heads/")) => ("refs/heads/" \o branch = ref)
    /\ (headRef = "" /\ ~startsWith(ref, "refs/heads/") /\ startsWith(ref, "refs/tags/"))
         => ("refs/tags/" \o branch = ref)
    /\ (headRef = "" /\ ~startsWith(ref, "refs/heads/") /\ ~startsWith(ref, "refs/tags/"))
         => (branch = ref)

C19_Witness ==
  /\ BranchResolved
  /\ headRef = ""
  /\ ref = "refs/tags/v1"
  /\ branch = "v1"


\* the listed job a published job was made from
RawOf(m) == CHOOSE j \in {jobsList[i] : i \in DOMAIN jobsList} : ToString(j.id) = m.job_id

PublishedJobs == {metrics.jobs[k] : k \in DOMAIN metrics.jobs}

\* the sum of the durations the first n published jobs carry
RECURSIVE PublishedSum(_)
PublishedSum(n) ==
  IF n = 0 THEN 0
  ELSE PublishedSum(n - 1)
         + (IF metrics.jobs[n].duration_seconds = {} THEN 0
            ELSE CHOOSE d \in metrics.jobs[n].duration_seconds : TRUE)

TotalPublished == PublishedSum(Len(metrics.jobs))

\* C13: a published job has no duration when the listed job lacks its start
\* or its end timestamp, and otherwise the whole seconds (rounded down) from
\* start to end; equal timestamps give the duration 0, not an absent one.
C13_JobDuration ==
  Published =>
    \A m \in PublishedJobs :
      LET raw == RawOf(m)
      IN  IF raw.started_at = NoTime \/ raw.completed_at = NoTime
          THEN m.duration_seconds = {}
          ELSE LET ms == (raw.completed_at[1] * 1000 + raw.completed_at[2])
                           - (raw.started_at[1] * 1000 + raw.started_at[2])
               IN  /\ Cardinality(m.duration_seconds) = 1
                   /\ \A d \in m.duration_seconds :
                        1000 * d <= ms /\ ms < 1000 * (d + 1)
                   /\ (raw.started_at = raw.completed_at) => (m.duration_seconds = {0})

C13_Witness ==
  /\ Published
  /\ \E m \in PublishedJobs :
       m.duration_seconds = {0} /\ RawOf(m).started_at = RawOf(m).completed_at
  /\ \E m \in PublishedJobs : m.duration_seconds = {} /\ RawOf(m).started_at # NoTime
  /\ \E m \in PublishedJobs :
       m.duration_seconds = {1} /\ RawOf(m).started_at = <<1, 500>>

\* C14: compute_seconds, when the record carries it, is the sum of the
\* durations the published jobs carry, and the record carries it only when
\* that sum is above zero; when every published duration is absent, or every
\* one is zero, the record carries none.
C14_ComputeSecondsOnlyPositive ==
  Published =>
    /\ metrics.compute_seconds \subseteq {TotalPublished}
    /\ (metrics.compute_seconds # {}) => (TotalPublished > 0)
    /\ (\A m \in PublishedJobs : m.duration_seconds = {}) => (metrics.compute_seconds = {})
    /\ (\A m \in PublishedJobs : m.duration_seconds = {0}) => (metrics.compute_seconds = {})

C14_Witness ==
  /\ Published
  /\ Len(metrics.jobs) >= 2
  /\ \A m \in PublishedJobs : m.duration_seconds = {0}
  /\ metrics.compute_seconds = {}

\* C15 as stated: compute_seconds is absent when every published job's
\* duration is absent, and present and equal to the sum of the present
\* durations whenever some published job has a duration.
C15_PresentWheneverSomeDuration ==
  Published =>
    IF \A m \in PublishedJobs : m.duration_seconds = {}
    THEN metrics.compute_seconds = {}
    ELSE metrics.compute_seconds = {TotalPublished}

\* C15, amended: compute_seconds is absent when every published job's
\* duration is absent and when the present durations sum to zero or less;
\* when they sum to more than zero it is present and equal to the sum.
C15_PresentWhenSumPositive ==
  Published =>
    IF (\A m \in PublishedJobs : m.duration_seconds = {}) \/ TotalPublished <= 0
    THEN metrics.compute_seconds = {}
    ELSE metrics.compute_seconds = {TotalPublished}

C15_Witness ==
  /\ Published
  /\ \E m \in PublishedJobs : m.duration_seconds = {}
  /\ \E m \in PublishedJobs : m.duration_seconds = {2}
  /\ \E m \in PublishedJobs : m.duration_seconds = {1}
  /\ metrics.compute_seconds = {3}


\* a clock reading as the timestamp it is published as
Stamp(ms) == <<ms \div 1000, ms % 1000>>

Millis(iso) == iso[1] * 1000 + iso[2]

\* C16: completed_at is the run's update timestamp when the run is
\* completed and has one; otherwise, in inline mode, the update timestamp
\* when there is one and else a reading of the clock taken during the
\* invocation; otherwise absent. A record made in inline mode always
\* carries it, a record of a run not completed made in external mode never.
C16_CompletionTimestamp ==
  Published =>
    /\ IF run.status = "completed" /\ run.updated_at # NoTime
       THEN metrics.completed_at = run.updated_at
       ELSE IF isInlineMode
       THEN IF run.updated_at # NoTime
            THEN metrics.completed_at = run.updated_at
            ELSE \E i \in DOMAIN clockReads : metrics.completed_at = Stamp(clockReads[i])
       ELSE metrics.completed_at = NoTime
    /\ (~isInlineMode /\ run.status # "completed") => (metrics.completed_at = NoTime)
    /\ isInlineMode => (metrics.completed_at # NoTime)

C16_Witness ==
  /\ Published
  /\ isInlineMode
  /\ run.status = "in_progress"
  /\ run.updated_at = NoTime
  /\ clockReads = <<4999, 5000>>
  /\ metrics.completed_at = <<5, 0>>

\* the completion time the duration is taken to: the update timestamp where
\* completed_at is one, the first clock reading where completed_at is "now"
EffectiveCompletion ==
  IF run.updated_at # NoTime /\ (run.status = "completed" \/ isInlineMode)
  THEN {Millis(run.updated_at)}
  ELSE IF isInlineMode THEN {clockReads[1]}
  ELSE {}

FloorSeconds(d, ms) == 1000 * d <= ms /\ ms < 1000 * (d + 1)

C18_BranchSelection ==
  Published =>
    LET caller == IF branch = "" THEN Undefined ELSE branch
    IN  /\ isInlineMode => (metrics.branch = caller)
        /\ (~isInlineMode /\ run.head_branch \notin {Null, ""})
             => (metrics.branch = run.head_branch)
        /\ (~isInlineMode /\ run.head_branch \in {Null, ""}) => (metrics.branch = caller)

C18_Witness ==
  /\ Published
  /\ isInlineMode
  /\ run.head_branch = "feature"
  /\ branch = "main"
  /\ metrics.branch = "main"


\* the invocation has called getCurrentJobId and is past it
SelfAttempted ==
  /\ isInlineMode
  /\ currentJobName # ""
  /\ pc \in {"fetchPipelineRun", "sendMetrics", "done"}

\* the job listing made by getCurrentJobId threw
SelfListingFailed == calls # <<>> /\ calls[1] = [api |-> "listJobsForWorkflowRun", ok |-> FALSE]

\* exactly one listed job has the current job's name, or several have and
\* exactly one of those runs on the current runner
UniquelyIdentified ==
  \/ Cardinality(NameMatches) = 1
  \/ /\ Cardinality(NameMatches) > 1
     /\ runnerName # Undefined
     /\ Cardinality(RunnerMatches) = 1

Aggregated == metrics # NoMetrics

\* C11: when the listing made to find the current job fails, or the current
\* job is not uniquely identified, no id is resolved, one warning is
\* logged, the invocation goes on to fetchPipelineRun without a failure,
\* and the record it builds has one job for every listed job.
C11_SelfResolutionNeverFatal ==
  (SelfAttempted /\ (SelfListingFailed \/ ~UniquelyIdentified)) =>
    /\ currentJobId = {}
    /\ Len(warnings) = 1
    /\ (pc = "fetchPipelineRun") => (failed = <<>>)
    /\ Aggregated => (Len(metrics.jobs) = Len(jobsList))

\* the ids of the first n listed jobs, as published, without the job whose
\* id is self
RECURSIVE ListedWithout(_, _)
ListedWithout(n, self) ==
  IF n = 0 THEN <<>>
  ELSE IF jobsList[n].id \in self THEN ListedWithout(n - 1, self)
  ELSE Append(ListedWithout(n - 1, self), ToString(jobsList[n].id))

PublishedIds == [k \in DOMAIN metrics.jobs |-> metrics.jobs[k].job_id]

\* C12: the published jobs are the listed jobs, in listing order, without
\* the job whose id is the resolved current job id; with no id resolved
\* there is one published job per listed job, in the same order. In
\* external mode getCurrentJobId is not called and no id is resolved.
C12_PublishedJobsAreListingMinusSelf ==
  /\ Aggregated =>
       /\ PublishedIds = ListedWithout(Len(jobsList), currentJobId)
       /\ (currentJobId = {}) =>
            /\ Len(metrics.jobs) = Len(jobsList)
            /\ \A k \in DOMAIN jobsList :
                 /\ metrics.jobs[k].job_id = ToString(jobsList[k].id)
                 /\ metrics.jobs[k].name = jobsList[k].name
  /\ (pc # "start" /\ ~isInlineMode) =>
       /\ currentJobId = {}
       /\ calls # <<>> => calls[1].api = "getWorkflowRun"

C12_Witness ==
  /\ Aggregated
  /\ Len(jobsList) = 3
  /\ currentJobId = {2}
  /\ jobsList[3].name = currentJobName
  /\ PublishedIds = <<"1", "3">>

\* s is the decimal numeral of a positive integer
IsPositiveNumeral(s) ==
  /\ Len(s) > 0
  /\ \A i \in 1..Len(s) : SubSeq(s, i, i) \in Digits
  /\ \E i \in 1..Len(s) : SubSeq(s, i, i) # "0"

\* C20: with the other inputs supplied, a workflow_run_id that is given and
\* is not a positive integer ends the invocation with one failure that
\* names workflow_run_id, and no provider or delivery call is made.
C20_InvalidRunIdRejected ==
  (ConfigSupplied /\ workflowRunIdInput # "" /\ ~IsPositiveNumeral(workflowRunIdInput)
     /\ pc # "start") =>
    /\ pc = "done"
    /\ calls = <<>>
    /\ Len(failed) = 1
    /\ failed[1].kind = "Invalid workflow_run_id"


\* the provider's lookup of the run has failed
LookupFailed ==
  calls # <<>> /\ calls[Len(calls)] = [api |-> "getWorkflowRun", ok |-> FALSE]

Delivered == \E i \in DOMAIN calls : calls[i].api = "fetch"

\* C21: when getWorkflowRun fails with status 404, fetchPipelineRun throws an
\* error of its own that says the run was not found and names the run id,
\* the repository and what to check; when it fails in any other way,
\* fetchPipelineRun throws the error it caught, unchanged. Either way no
\* record is built, no output is set and nothing is sent.
C21_LookupFailure ==
  LookupFailed =>
    /\ Len(thrown) = 2
    /\ thrown[1].by = "getWorkflowRun"
    /\ thrown[2].by = "fetchPipelineRun"
    /\ IF thrown[1].error.status = {404}
       THEN /\ thrown[2].error # thrown[1].error
            /\ thrown[2].error.isError
            /\ thrown[2].error.message.kind = "Workflow run not found"
            /\ \A n \in runId : ToString(n) \in thrown[2].error.message.mentions
            /\ "owner/repo" \in thrown[2].error.message.mentions
            /\ "Check run ID and repository access (GITHUB_TOKEN permissions)"
                 \in thrown[2].error.message.mentions
       ELSE /\ thrown[2].error = thrown[1].error
            /\ thrown[2].error.message.kind # "Workflow run not found"
    /\ metrics = NoMetrics
    /\ outputs = <<>>
    /\ ~Delivered

C21_Witness ==
  /\ LookupFailed
  /\ runId = {2}
  /\ thrown[1].error.status = {404}
  /\ failed[1].kind = "Workflow run not found"
  /\ "2" \in failed[1].mentions


\* the delivery request has failed: fetch threw, or the response was not ok
DeliveryFailed ==
  calls # <<>> /\ calls[Len(calls)] = [api |-> "fetch", ok |-> FALSE]

\* what fetch threw, if it threw
FetchThrew == {thrown[i].error : i \in {k \in DOMAIN thrown : thrown[k].by = "fetch"}}

\* C22: when the delivery request throws, times out or is answered with a
\* status that is not a success, the invocation fails, and the failure
\* message names the endpoint URL in each of the three cases; it names the
\* cause when the thrown error has one, and it says that the request timed
\* out exactly when it was aborted by the timeout.
C22_DeliveryFailureMessage ==
  DeliveryFailed =>
    /\ pc = "done"
    /\ Len(failed) = 1
    /\ apiUrl \in failed[1].mentions
    /\ \A e \in FetchThrew : (e.cause # "") => (e.cause \in failed[1].mentions)
    /\ (TimeoutHint \in failed[1].mentions) <=> (\E e \in FetchThrew : e.name = "AbortError")


CallsTo(api) == {i \in DOMAIN calls : calls[i].api = api}

\* C23: the run lookup and the delivery request are each made at most once;
\* the outputs are set only when the invocation has ended after a delivery
\* that succeeded or was skipped by dry run, and then no failure is
\* reported; an invocation that reports a failure reports exactly one and
\* sets no output.
C23_NoPartialOutputNoRetry ==
  /\ Cardinality(CallsTo("getWorkflowRun")) <= 1
  /\ Cardinality(CallsTo("fetch")) <= 1
  /\ (outputs # <<>>) =>
       /\ pc = "done"
       /\ failed = <<>>
       /\ Aggregated
       /\ IF dryRun THEN ~Delivered
          ELSE calls[Len(calls)] = [api |-> "fetch", ok |-> TRUE]
       /\ outputs = <<[name |-> "pipeline_run_id", value |-> ToString(metrics.run_id)],
                      [name |-> "status", value |-> metrics.status]>>
  /\ (failed # <<>>) =>
       /\ pc = "done"
       /\ Len(failed) = 1
       /\ outputs = <<>>
  /\ (pc = "done") => (failed # <<>> \/ outputs # <<>>)

C23_Witness ==
  /\ pc = "done"
  /\ ~dryRun
  /\ Len(outputs) = 2
  /\ failed = <<>>
  /\ calls[Len(calls)] = [api |-> "fetch", ok |-> TRUE]


\* C25: the clock is read at most once while the record is built, and a
\* record that carries both completed_at and duration_seconds has as
\* duration_seconds the whole seconds from its started_at to its
\* completed_at, however the clock advances between two readings.
C25_OneClockReading ==
  Published =>
    /\ Len(clockReads) <= 1
    /\ (metrics.completed_at # NoTime /\ metrics.duration_seconds # {}) =>
         \A d \in metrics.duration_seconds :
           FloorSeconds(d, Millis(metrics.completed_at) - Millis(metrics.started_at))


\* C26: for a run that is not completed the inferred status is never
\* timed_out or skipped; with a timed-out job and no failed, cancelled,
\* running, pending or queued job it is the mapping of the run's own state:
\* queued for queued, pending for waiting, running otherwise.
C26_TimedOutJobFallsBack ==
  (Published /\ run.status # "completed") =>
    /\ metrics.status \notin {"timed_out", "skipped"}
    /\ (Has("timed_out") /\ ~Has("failure") /\ ~Has("cancelled") /\ ~Has("running")
          /\ ~Has("pending") /\ ~Has("queued")) =>
         metrics.status = (IF run.status = "queued" THEN "queued"
                           ELSE IF run.status = "waiting" THEN "pending"
                           ELSE "running")

C26_Witness ==
  /\ Published
  /\ run.status = "waiting"
  /\ Len(metrics.jobs) = 2
  /\ metrics.jobs[1].status = "timed_out"
  /\ metrics.jobs[2].status = "success"
  /\ metrics.status = "pending"


Listed == pc = "listed"

\* what holds of the loop after every pass: the requests made are for pages
\* 1, 2, 3, ... in order, each for 100 jobs; the jobs collected are the first
\* jobs of the listing in listing order; the loop goes on only after full
\* pages, and when it has ended it has made one request more than there are
\* full pages and has collected the whole listing.
PagingInvariant ==
  /\ \A i \in DOMAIN pageRequests : pageRequests[i] = [per_page |-> 100, page |-> i]
  /\ Len(allJobs) <= Len(jobsList)
  /\ allJobs = SubSeq(jobsList, 1, Len(allJobs))
  /\ ~Listed => (Len(allJobs) = 100 * Len(pageRequests))
  /\ Listed =>
       /\ allJobs = jobsList
       /\ Len(pageRequests) = (Len(jobsList) \div 100) + 1
       /\ \A i \in 1..(Len(pageRequests) - 1) : 100 * i <= Len(jobsList)

\* C27: the loop requests pages 1, 2, 3, ... in order with 100 jobs to a
\* page, appends each page as received and stops after the first page with
\* fewer than 100 jobs; it ends, and what it returns is the whole listing
\* in listing order, no job dropped or repeated (for a multiple of 100 jobs
\* one more, empty, page is requested).
C27_PagingCollectsListing == []PagingInvariant /\ <>Listed

C27_Witness ==
  /\ Listed
  /\ Len(jobsList) = 200
  /\ Len(pageRequests) = 3
  /\ allJobs = jobsList


\* C24: the invocation and its twin, which differs from it in the debug
\* flag alone and is given the same provider responses and clock readings,
\* are at the same step, have built the same record, have made the same
\* provider and delivery calls in the same order, and have set the same
\* outputs or reported the same failure.
C24_DebugDoesNotInterfere ==
  /\ twin.pc = pc
  /\ twin.metrics = metrics
  /\ twin.calls = calls
  /\ twin.outputs = outputs
  /\ twin.failed = failed

C24_Witness ==
  /\ pc = "done"
  /\ debug
  /\ ~dryRun
  /\ logs = <<"debug: pipeline run", "debug: pipeline jobs", "info: JSON Payload">>
  /\ Delivered
  /\ Len(outputs) = 2
  /\ twin = Obs


====
